---------------------------- MODULE Spec2Model ----------------------------
(***************************************************************************)
(* Model of the ultrasound core (src/ultrasound_core): the frame decoder   *)
(* UltrasoundSDK::loadFrameFromBytes with parseHeader, extractFrameData    *)
(* and validateCrc, the filter pipeline UltrasoundSDK::applyFilters, and   *)
(* the JNI bridge (src/ultrasound_core/jni/ultrasound_jni.cpp) with its    *)
(* threads, its mutex g_sdkMutex, the SDK and Mat objects it keeps on the  *)
(* heap behind jlong handles, and the bitmaps it locks.                    *)
(*                                                                         *)
(* Number representation.  TLC integers are 32-bit signed, the program's   *)
(* are up to 64 bits wide, so                                              *)
(*   - a uint16_t is a TLA+ natural 0..65535,                              *)
(*   - a uint32_t is the pair <<lo, hi>> of its 16-bit halves,             *)
(*   - a uint64_t is the tuple <<w0, w1, w2, w3>> of its 16-bit words,     *)
(*     least significant first,                                            *)
(*   - a size_t is the sequence of its base-256 digits, least significant  *)
(*     first, sizeBits \div 8 digits long: arithmetic on it wraps modulo   *)
(*     2^sizeBits exactly as unsigned arithmetic does.                     *)
(***************************************************************************)
EXTENDS Integers, Sequences, FiniteSets, TLC

VARIABLES
    sdk,        \* the UltrasoundSDK object: pImpl->defaultParams
    sizeBits,   \* width of size_t in the build (ILP32: 32, LP64: 64)
    op,         \* the operation that has run: "none" before the call
    data,       \* argument: std::vector<uint8_t> data
    expectedCrc,\* argument of validateCrc
    loadRet,    \* what loadFrameFromBytes returned or threw
    crcRet,     \* what validateCrc returned
    frameArg,   \* argument of applyFilters: the cv::Mat frame
    params,     \* argument of applyFilters: ProcessingParams
    filterRet,  \* what applyFilters returned or threw, and the stages it ran
    pc,         \* JNI: where each thread stands in the entry point it called
    call,       \* JNI: each thread's entry point, arguments, locals and result
    g_sdkMutex, \* JNI: the thread that holds g_sdkMutex, or NoThread
    sdkHeap,    \* JNI: the UltrasoundSDK objects behind the SDK handles
    matHeap,    \* JNI: the cv::Mat objects behind the Mat addresses
    pixelLocks, \* JNI: lockPixels not yet undone by unlockPixels, per bitmap
    aborted     \* JNI: the process died of undefined behaviour

coreVars == <<sdk, op, data, expectedCrc, loadRet, crcRet,
              frameArg, params, filterRet>>

jniVars == <<pc, call, g_sdkMutex, sdkHeap, matHeap, pixelLocks, aborted>>

vars == <<sdk, sizeBits, op, data, expectedCrc, loadRet, crcRet,
          frameArg, params, filterRet,
          pc, call, g_sdkMutex, sdkHeap, matHeap, pixelLocks, aborted>>

-----------------------------------------------------------------------------
(* Bounds of the model *)

MaxDim == 2         \* header width and height range over 0..MaxDim
MaxDepth == 2       \* header depth ranges over 0..MaxDepth
MaxBpv == 2         \* header bytesPerVoxel ranges over 0..MaxBpv
MaxExtra == 1       \* trailing bytes appended after the payload: 0..MaxExtra
MaxCrcPayload == 4  \* validateCrc is called on the buffers of at most
                    \* HEADER_SIZE + MaxCrcPayload bytes

-----------------------------------------------------------------------------
(* Program constants *)

HEADER_SIZE == 32
MAGIC_ID == <<21586, 21836>>    \* 0x554C5452 as <<0x5452, 0x554C>>
CRC_OFFSET == 28

ErrTooSmall == "Data too small to contain header"
ErrInvalidHeader == "Invalid header: magic ID mismatch"
ErrSizeMismatch == "Data size mismatch"
ErrEmptyFrame == "Empty frame"

-----------------------------------------------------------------------------
(* Unsigned arithmetic of width sizeBits on base-256 digit sequences *)

RECURSIVE Digits(_, _)
Digits(n, k) == IF k = 0 THEN <<>> ELSE <<n % 256>> \o Digits(n \div 256, k - 1)

\* static_cast<size_t>(n) for a natural n below 2^31
ToSizeT(n, bits) == Digits(n, bits \div 8)

RECURSIVE MulCarry(_, _, _, _)
MulCarry(x, m, i, carry) ==
    IF i > Len(x) THEN <<>>
    ELSE LET t == x[i] * m + carry
         IN  <<t % 256>> \o MulCarry(x, m, i + 1, t \div 256)

\* x * m in size_t, m a uint16_t converted to size_t; the carry out of the
\* top digit is lost
SizeMul(x, m) == MulCarry(x, m, 1, 0)

RECURSIVE AddCarry(_, _, _, _)
AddCarry(x, y, i, carry) ==
    IF i > Len(x) THEN <<>>
    ELSE LET t == x[i] + y[i] + carry
         IN  <<t % 256>> \o AddCarry(x, y, i + 1, t \div 256)

SizeAdd(x, y) == AddCarry(x, y, 1, 0)

RECURSIVE LessFrom(_, _, _)
LessFrom(x, y, i) ==
    IF i = 0 THEN FALSE
    ELSE IF x[i] # y[i] THEN x[i] < y[i]
    ELSE LessFrom(x, y, i - 1)

\* x < y on size_t
SizeLess(x, y) == LessFrom(x, y, Len(x))

\* the value of x when it is below 2^24, else -1 (more than any buffer here)
SizeToNat(x) ==
    IF \E i \in 4..Len(x) : x[i] # 0 THEN -1
    ELSE x[1] + 256 * x[2] + 65536 * x[3]

-----------------------------------------------------------------------------
(* UltraHeader *)

\* isValid without the test of bytesPerVoxel
UltraHeader_isValid_noBpv(h) ==
    /\ h.magicId = MAGIC_ID
    /\ h.width > 0 /\ h.height > 0

UltraHeader_isValid(h) ==
    /\ h.magicId = MAGIC_ID
    /\ h.width > 0 /\ h.height > 0
    /\ h.bytesPerVoxel > 0

UltraHeader_getFrameDataSize(h, bits) ==
    SizeMul(SizeMul(SizeMul(ToSizeT(h.width, bits), h.height), h.depth),
            h.bytesPerVoxel)

-----------------------------------------------------------------------------
(* parseHeader: nine memcpy's from consecutive offsets, little-endian host *)

\* uint16_t read at byte offset off (0-based) of d
ReadU16(d, off) == d[off + 1] + 256 * d[off + 2]
ReadU32(d, off) == <<ReadU16(d, off), ReadU16(d, off + 2)>>
ReadU64(d, off) == <<ReadU16(d, off), ReadU16(d, off + 2),
                     ReadU16(d, off + 4), ReadU16(d, off + 6)>>

parseHeader(d) ==
    [ magicId       |-> ReadU32(d, 0),
      width         |-> ReadU16(d, 4),
      height        |-> ReadU16(d, 6),
      depth         |-> ReadU16(d, 8),
      bytesPerVoxel |-> ReadU16(d, 10),
      frameNumber   |-> ReadU32(d, 12),
      timestamp     |-> ReadU64(d, 16),
      reserved      |-> ReadU32(d, 24),
      crc           |-> ReadU32(d, 28) ]


-----------------------------------------------------------------------------
(* calculateCrc32: zlib crc32(0L, data, length), the CRC-32 of ISO 3309    *)
(* (reflected polynomial 0xEDB88320, initial value and final xor           *)
(* 0xFFFFFFFF), on <<lo, hi>> pairs                                        *)

RECURSIVE XorBits(_, _, _)
XorBits(a, b, n) ==
    IF n = 0 THEN 0
    ELSE (((a % 2) + (b % 2)) % 2) + 2 * XorBits(a \div 2, b \div 2, n - 1)

Xor16(a, b) == XorBits(a, b, 16)
Xor32(x, y) == <<Xor16(x[1], y[1]), Xor16(x[2], y[2])>>

\* x >> 8 on a 32-bit value
Shr8(x) == <<(x[1] \div 256) + (x[2] % 256) * 256, x[2] \div 256>>

ALL_ONES == <<65535, 65535>>    \* 0xFFFFFFFF

\* zlib's crc_table[0][n] for n = 0..255, at index n + 1:
\* n shifted right eight times, 0xEDB88320 xor-ed in whenever a 1 is shifted
\* out
CrcTable ==
    <<
       <<0, 0>>, <<12438, 30471>>, <<24876, 60942>>, <<20922, 39177>>,
       <<50201, 1901>>, <<62607, 28778>>, <<42293, 59747>>, <<38307, 40548>>,
       <<34866, 3803>>, <<47268, 31196>>, <<59678, 57557>>, <<55688, 38866>>,
       <<19499, 2486>>, <<31933, 32433>>, <<11527, 59320>>, <<7569, 37055>>,
       <<4196, 7607>>, <<8434, 27312>>, <<29000, 62393>>, <<16862, 33982>>,
       <<54397, 6874>>, <<58603, 28125>>, <<46417, 62676>>, <<34247, 33747>>,
       <<38998, 4972>>, <<43200, 25707>>, <<63866, 64866>>, <<51692, 35429>>,
       <<23631, 5121>>, <<27865, 25350>>, <<15715, 64015>>, <<3573, 36104>>,
       <<8392, 15214>>, <<4190, 19561>>, <<16868, 54624>>, <<29042, 41575>>,
       <<58577, 15363>>, <<54343, 19204>>, <<34301, 53773>>, <<46443, 42250>>,
       <<43258, 13749>>, <<39020, 17074>>, <<51670, 56251>>, <<63808, 44220>>,
       <<27875, 13016>>, <<23669, 17887>>, <<3535, 56534>>, <<15705, 43985>>,
       <<12460, 9945>>, <<58, 20958>>, <<20864, 51415>>, <<24854, 49104>>,
       <<62645, 8628>>, <<50211, 22195>>, <<38297, 53178>>, <<42255, 47293>>,
       <<47262, 10242>>, <<34824, 24325>>, <<55730, 50700>>, <<59684, 45323>>,
       <<31879, 12143>>, <<19473, 22632>>, <<7595, 49505>>, <<11581, 46694>>,
       <<16784, 30428>>, <<28934, 475>>, <<8380, 39122>>, <<4138, 61397>>,
       <<34185, 29105>>, <<46367, 1718>>, <<58533, 40895>>, <<54323, 59576>>,
       <<51618, 30727>>, <<63796, 3840>>, <<43150, 38409>>, <<38936, 57614>>,
       <<3515, 32618>>, <<15661, 2157>>, <<27799, 37220>>, <<23553, 58979>>,
       <<20980, 27499>>, <<24930, 7276>>, <<12504, 34149>>, <<78, 62050>>,
       <<38381, 27654>>, <<42363, 6913>>, <<62657, 33288>>, <<50263, 62735>>,
       <<55750, 26032>>, <<59728, 4791>>, <<47338, 35774>>, <<34940, 64697>>,
       <<7647, 25309>>, <<11593, 5594>>, <<31987, 36051>>, <<19557, 64468>>,
       <<24920, 19890>>, <<20942, 15029>>, <<116, 41916>>, <<12514, 54459>>,
       <<42305, 19167>>, <<38359, 15832>>, <<50285, 42193>>, <<62715, 54230>>,
       <<59754, 17257>>, <<55804, 13422>>, <<34886, 44391>>, <<47312, 55904>>,
       <<11635, 17412>>, <<7653, 13059>>, <<19551, 43530>>, <<31945, 56589>>,
       <<28988, 20485>>, <<16810, 9986>>, <<4112, 48651>>, <<8326, 51468>>,
       <<46373, 22376>>, <<34227, 8303>>, <<54281, 47462>>, <<58527, 52833>>,
       <<63758, 24286>>, <<51608, 10713>>, <<38946, 45264>>, <<43188, 51159>>,
       <<15639, 22963>>, <<3457, 11956>>, <<23611, 47037>>, <<27821, 49338>>,
       <<33568, 60856>>, <<46006, 39615>>, <<57868, 950>>, <<53914, 29873>>,
       <<18233, 60117>>, <<30639, 40402>>, <<9749, 1243>>, <<5763, 29660>>,
       <<2834, 58211>>, <<15236, 37988>>, <<27198, 3437>>, <<23208, 31338>>,
       <<53003, 58382>>, <<65437, 37641>>, <<44583, 2560>>, <<40625, 32007>>,
       <<37700, 61455>>, <<41938, 34568>>, <<62056, 7681>>, <<49918, 26886>>,
       <<22365, 63330>>, <<26571, 32869>>, <<13937, 6508>>, <<1767, 28267>>,
       <<7030, 65236>>, <<11232, 35283>>, <<31322, 4314>>, <<19148, 26589>>,
       <<57199, 63929>>, <<61433, 36542>>, <<48707, 6071>>, <<36565, 24752>>,
       <<41960, 54998>>, <<37758, 41425>>, <<49860, 14552>>, <<62034, 20447>>,
       <<26609, 53691>>, <<22375, 42684>>, <<1757, 16309>>, <<13899, 18610>>,
       <<11226, 55309>>, <<6988, 44810>>, <<19190, 13827>>, <<31328, 16644>>,
       <<61379, 57184>>, <<57173, 43111>>, <<36591, 12654>>, <<48761, 18025>>,
       <<45964, 52065>>, <<33562, 48230>>, <<53920, 9583>>, <<57910, 21096>>,
       <<30613, 52236>>, <<18179, 47883>>, <<5817, 8706>>, <<9775, 21765>>,
       <<15294, 50618>>, <<2856, 45757>>, <<23186, 11188>>, <<27140, 23731>>,
       <<65447, 49879>>, <<53041, 46544>>, <<40587, 11481>>, <<44573, 23518>>,
       <<49840, 39780>>, <<61990, 60515>>, <<41884, 30058>>, <<37642, 621>>,
       <<1705, 39945>>, <<13887, 60174>>, <<26501, 29191>>, <<22291, 1280>>,
       <<19074, 38335>>, <<31252, 58040>>, <<11182, 31665>>, <<6968, 3254>>,
       <<36507, 37586>>, <<48653, 58837>>, <<61367, 31964>>, <<57121, 3035>>,
       <<53972, 34515>>, <<57922, 61908>>, <<46072, 26845>>, <<33646, 8154>>,
       <<5837, 33214>>, <<9819, 63161>>, <<30689, 28592>>, <<18295, 6327>>,
       <<23270, 34824>>, <<27248, 65295>>, <<15306, 26118>>, <<2908, 4353>>,
       <<40703, 36709>>, <<44649, 63586>>, <<65491, 24939>>, <<53061, 5740>>,
       <<57976, 40970>>, <<53998, 55053>>, <<33620, 19972>>, <<46018, 14595>>,
       <<9825, 42855>>, <<5879, 53344>>, <<18253, 18793>>, <<30683, 15982>>,
       <<27210, 44753>>, <<23260, 55766>>, <<2918, 16607>>, <<15344, 14296>>,
       <<44627, 43452>>, <<40645, 57019>>, <<53119, 18354>>, <<65513, 12469>>,
       <<61980, 48573>>, <<49802, 51898>>, <<37680, 21427>>, <<41894, 9396>>,
       <<13829, 47824>>, <<1683, 52695>>, <<22313, 21726>>, <<26559, 9177>>,
       <<31278, 45926>>, <<19128, 50273>>, <<6914, 23912>>, <<11156, 10863>>,
       <<48695, 46091>>, <<36513, 49932>>, <<57115, 23045>>, <<61325, 11522>>
    >>

RECURSIVE CrcUpdate(_, _, _, _)
CrcUpdate(c, d, from, to) ==
    IF from > to \/ c = <<>> THEN c
    ELSE CrcUpdate(Xor32(CrcTable[XorBits(c[1] % 256, d[from], 8) + 1], Shr8(c)),
                   d, from + 1, to)

\* crc32(0L, d + off, length): d is the whole buffer, off the 0-based offset
calculateCrc32(d, off, length) ==
    Xor32(CrcUpdate(ALL_ONES, d, off + 1, off + length), ALL_ONES)

-----------------------------------------------------------------------------
(* validateCrc *)

\* validateCrc reading from after the checksum field
validateCrc_afterField(d, expected) ==
    IF Len(d) < HEADER_SIZE THEN FALSE
    ELSE calculateCrc32(d, HEADER_SIZE, Len(d) - HEADER_SIZE) = expected

validateCrc(d, expected) ==
    IF Len(d) < HEADER_SIZE THEN FALSE
    ELSE calculateCrc32(d, CRC_OFFSET, Len(d) - CRC_OFFSET) = expected

-----------------------------------------------------------------------------
(* extractFrameData *)

\* garbage a fresh allocation may hold: cv::Mat(rows, cols, type) does not
\* initialise its buffer.  The bytes of one allocation that are never written
\* are all given the same garbage value.
UninitBytes == {0, 205}

NoHeader == [none |-> TRUE]
NoFrame == [rows |-> 0, cols |-> 0, data |-> <<>>]

Min(a, b) == IF a < b THEN a ELSE b

\* The outcomes of extractFrameData(d, h).  frame(height, width, CV_8UC1)
\* allocates rows*cols bytes; memcpy writes frameSize bytes to it from
\* d + HEADER_SIZE.  A memcpy longer than the destination (or than the
\* source) is undefined behaviour: the call may crash, or return with the
\* memory behind the matrix overwritten.  Bytes of the matrix that memcpy did
\* not write hold garbage.
extractFrameData(d, h, bits) ==
    LET frameSize == SizeToNat(UltraHeader_getFrameDataSize(h, bits))
        alloc     == h.height * h.width
        avail     == Len(d) - HEADER_SIZE
        overrun   == frameSize = -1 \/ frameSize > alloc
        overread  == frameSize = -1 \/ frameSize > avail
        written   == IF frameSize = -1 THEN Min(alloc, avail)
                     ELSE Min(frameSize, Min(alloc, avail))
        returns   == { [ crashed   |-> FALSE,
                         frame     |-> [ rows |-> h.height, cols |-> h.width,
                                         data |-> [i \in 1..alloc |->
                                                   IF i <= written
                                                   THEN d[HEADER_SIZE + i]
                                                   ELSE g] ],
                         allocated |-> alloc,
                         copied    |-> frameSize ]
                       : g \in UninitBytes }
    IN  IF overrun \/ overread
        THEN returns \cup { [ crashed |-> TRUE, frame |-> NoFrame,
                              allocated |-> alloc, copied |-> frameSize ] }
        ELSE returns

-----------------------------------------------------------------------------
(* loadFrameFromBytes: the set of its outcomes on the buffer d *)

Threw(msg) ==
    [ threw |-> msg, crashed |-> FALSE, header |-> NoHeader, frame |-> NoFrame,
      allocated |-> 0, copied |-> 0 ]

ErrCrc == "CRC mismatch"

\* loadChecked with a checksum mismatch promoted to an error
loadChecked_crcFatal(d, bits) ==
    LET header == parseHeader(d) IN
      IF ~UltraHeader_isValid(header) THEN { Threw(ErrInvalidHeader) }
      ELSE LET expectedSize == SizeAdd(ToSizeT(HEADER_SIZE, bits),
                                       UltraHeader_getFrameDataSize(header, bits))
           IN
        IF SizeLess(ToSizeT(Len(d), bits), expectedSize)
        THEN { Threw(ErrSizeMismatch) }
        ELSE IF ~validateCrc(d, header.crc) THEN { Threw(ErrCrc) }
        ELSE { [ threw |-> "", crashed |-> x.crashed,
                 header |-> IF x.crashed THEN NoHeader ELSE header,
                 frame |-> x.frame, allocated |-> x.allocated,
                 copied |-> x.copied ]
               : x \in extractFrameData(d, header, bits) }

\* the part of loadFrameFromBytes after the length check: the buffer holds a
\* whole header
loadChecked(d, bits) ==
    LET header == parseHeader(d) IN
      IF ~UltraHeader_isValid(header) THEN { Threw(ErrInvalidHeader) }
      ELSE LET expectedSize == SizeAdd(ToSizeT(HEADER_SIZE, bits),
                                       UltraHeader_getFrameDataSize(header, bits))
           IN
        IF SizeLess(ToSizeT(Len(d), bits), expectedSize)
        THEN { Threw(ErrSizeMismatch) }
        ELSE \* the result of validateCrc(d, header.crc) is discarded
             { [ threw |-> "", crashed |-> x.crashed,
                 header |-> IF x.crashed THEN NoHeader ELSE header,
                 frame |-> x.frame, allocated |-> x.allocated,
                 copied |-> x.copied ]
               : x \in extractFrameData(d, header, bits) }

\* loadFrameFromBytes rejecting only the empty buffer; bytes read past the
\* end of a shorter buffer read as 0
loadFrameFromBytes_emptyOnly(d, bits) ==
    IF Len(d) = 0 THEN { Threw(ErrTooSmall) }
    ELSE loadChecked(d \o [i \in 1..(HEADER_SIZE - Len(d)) |-> 0], bits)

loadFrameFromBytes(d, bits) ==
    IF Len(d) < HEADER_SIZE THEN { Threw(ErrTooSmall) }
    ELSE loadChecked(d, bits)

-----------------------------------------------------------------------------
(* The buffers handed to the decoder: encoded frames, whole, truncated and *)
(* with trailing bytes, and buffers too short for a header                 *)

U16Bytes(v) == <<v % 256, v \div 256>>
U32Bytes(x) == U16Bytes(x[1]) \o U16Bytes(x[2])
U64Bytes(x) == U16Bytes(x[1]) \o U16Bytes(x[2]) \o U16Bytes(x[3]) \o U16Bytes(x[4])

\* the 32-byte little-endian record of section 6 of the format, then the
\* payload
Encode(h, payload) ==
    U32Bytes(h.magicId) \o U16Bytes(h.width) \o U16Bytes(h.height)
      \o U16Bytes(h.depth) \o U16Bytes(h.bytesPerVoxel)
      \o U32Bytes(h.frameNumber) \o U64Bytes(h.timestamp)
      \o U32Bytes(h.reserved) \o U32Bytes(h.crc) \o payload

Magics == { MAGIC_ID, <<0, 0>> }

\* frameNumber, timestamp, reserved, crc
AuxFields ==
    { [ frameNumber |-> <<7, 0>>, timestamp |-> <<1000, 0, 0, 0>>,
        reserved |-> <<0, 0>>, crc |-> <<0, 0>> ],
      [ frameNumber |-> <<772, 258>>,                   \* 0x01020304
        timestamp |-> <<1800, 1286, 772, 258>>,         \* 0x0102030405060708
        reserved |-> <<52445, 43707>>,                  \* 0xAABBCCDD
        crc |-> <<48879, 57005>> ] }                    \* 0xDEADBEEF

MkHeader(m, w, h, dp, b, aux) ==
    [ magicId |-> m, width |-> w, height |-> h, depth |-> dp,
      bytesPerVoxel |-> b, frameNumber |-> aux.frameNumber,
      timestamp |-> aux.timestamp, reserved |-> aux.reserved,
      crc |-> aux.crc ]

GridHeaders ==
    { MkHeader(m, w, h, dp, b, aux) :
        m \in Magics, w \in 0..MaxDim, h \in 0..MaxDim, dp \in 0..MaxDepth,
        b \in 0..MaxBpv, aux \in AuxFields }

\* headers whose product of the four fields reaches 2^16, 2^32 and
\* (2^16-1)^4, and headers whose magic has its bytes reversed (0x52544C55)
LargeHeaders ==
    { MkHeader(MAGIC_ID, q[1], q[2], q[3], q[4], aux) :
        q \in { <<256, 256, 1, 1>>, <<4, 1, 32768, 32768>>,
                <<65535, 65535, 65535, 65535>> },
        aux \in AuxFields }
      \cup { MkHeader(<<19541, 21076>>, 1, 1, 1, 1, aux) : aux \in AuxFields }

PayloadKinds == { "flat", "ramp" }
PayloadByte(kind, i) == IF kind = "flat" THEN 128 ELSE (17 * i) % 256
Payload(kind, n) == [i \in 1..n |-> PayloadByte(kind, i)]

\* payload lengths tried for a header that needs `need` bytes
PayloadLens(need) ==
    { need + e : e \in 0..MaxExtra } \cup (IF need > 0 THEN { need - 1 } ELSE {})

GridNeed(h) == h.width * h.height * h.depth * h.bytesPerVoxel

ShortLens == { 0, 10, 31 }

ScenarioHeader == MkHeader(MAGIC_ID, MaxDim, MaxDim, 1, 1,
                           [ frameNumber |-> <<7, 0>>,
                             timestamp |-> <<1000, 0, 0, 0>>,
                             reserved |-> <<0, 0>>, crc |-> <<0, 0>> ])

Inputs ==
    UNION { { Encode(h, Payload(k, n)) :
                k \in PayloadKinds, n \in PayloadLens(GridNeed(h)) }
            : h \in GridHeaders }
      \cup { Encode(h, Payload("ramp", n)) : h \in LargeHeaders, n \in 0..MaxExtra }
      \cup { SubSeq(Encode(ScenarioHeader, <<>>), 1, n) : n \in ShortLens }

CrcInputs == { d \in Inputs : Len(d) <= HEADER_SIZE + MaxCrcPayload }

\* expected values handed to validateCrc with the buffer d: the CRC of the
\* range the function reads, the buffer's own checksum field, and 0
ExpectedCrcs(d) ==
    { <<0, 0>> }
      \cup (IF Len(d) >= CRC_OFFSET
            THEN { calculateCrc32(d, CRC_OFFSET, Len(d) - CRC_OFFSET) } ELSE {})
      \cup (IF Len(d) >= HEADER_SIZE THEN { ReadU32(d, CRC_OFFSET) } ELSE {})

-----------------------------------------------------------------------------
(* ProcessingParams; a float is the pair <<numerator, denominator>> *)

DefaultParams ==
    [ normalize |-> TRUE, denoise |-> TRUE, gain |-> <<1, 1>>,
      gaussianBlur |-> FALSE, blurKernelSize |-> 3,
      sharpen |-> FALSE, sharpenAmount |-> <<1, 1>>,
      contrastAlpha |-> <<1, 1>>, contrastBeta |-> 0,
      enableAiPreprocessing |-> FALSE ]

NoFilterRet == [ threw |-> "", frame |-> NoFrame, stages |-> <<>> ]
NoLoadRet == Threw("")

-----------------------------------------------------------------------------
(* The filter pipeline on 8-bit single-channel matrices                    *)

Max(a, b) == IF a > b THEN a ELSE b

\* cv::saturate_cast<uchar>
Saturate(v) == Max(0, Min(255, v))

\* cvRound(n / d) for d > 0: to nearest, ties to even
RoundDiv(n, d) ==
    LET q == n \div d
        r == n - q * d
    IN  IF 2 * r < d THEN q
        ELSE IF 2 * r > d THEN q + 1
        ELSE IF q % 2 = 0 THEN q ELSE q + 1

RECURSIVE SeqMin(_)
SeqMin(sq) == IF Len(sq) = 1 THEN sq[1] ELSE Min(sq[1], SeqMin(Tail(sq)))
RECURSIVE SeqMax(_)
SeqMax(sq) == IF Len(sq) = 1 THEN sq[1] ELSE Max(sq[1], SeqMax(Tail(sq)))
RECURSIVE SeqSum(_)
SeqSum(sq) == IF sq = <<>> THEN 0 ELSE sq[1] + SeqSum(Tail(sq))

\* cv::Mat::empty()
MatEmpty(m) == m.rows * m.cols = 0

\* cv::normalize(src, dst, 0, 255, cv::NORM_MINMAX): scale is
\* 255 / (max - min), or 0 when the matrix is uniform
NormalizeMinMax(m) ==
    LET lo == SeqMin(m.data)
        hi == SeqMax(m.data)
    IN  [m EXCEPT !.data = [i \in 1..Len(m.data) |->
           IF hi = lo THEN 0
           ELSE Saturate(RoundDiv((m.data[i] - lo) * 255, hi - lo))]]

\* src.convertTo(dst, -1, alpha, beta) on CV_8U, alpha = a[1] / a[2]
ConvertScale(m, a, beta) ==
    [m EXCEPT !.data = [i \in 1..Len(m.data) |->
       Saturate(RoundDiv(m.data[i] * a[1] + beta * a[2], a[2]))]]

\* What a smoothing filter of the library (non-local means, Gaussian) may
\* return: every output sample is a weighted average of input samples, so a
\* uniform matrix is returned as it is; for any other matrix the weights are
\* not modelled, and the outcome is one of the matrix itself and the matrix
\* flattened to its mean.
SmoothOutcomes(m) ==
    LET mean == RoundDiv(SeqSum(m.data), Len(m.data))
    IN  { m, [m EXCEPT !.data = [i \in 1..Len(m.data) |-> mean]] }

Ok(m) == [ ok |-> TRUE, m |-> m, what |-> "" ]
Raise(msg) == [ ok |-> FALSE, m |-> NoFrame, what |-> msg ]

ErrKernel == "cv::Exception: ksize.width > 0 && ksize.width % 2 == 1"

normalizeIntensity(m) == NormalizeMinMax(m)

applyGain(m, gain) == ConvertScale(m, gain, 0)

\* cv::fastNlMeansDenoising(frame, denoised, 10, 7, 21)
applyDenoise(m) == SmoothOutcomes(m)

\* cv::GaussianBlur(src, dst, cv::Size(k, k), 0): the library asserts that
\* the kernel size is positive and odd, and throws cv::Exception otherwise
GaussianBlur(m, k) ==
    IF k <= 0 \/ k % 2 = 0 THEN { Raise(ErrKernel) }
    ELSE IF k = 1 THEN { Ok(m) }
    ELSE { Ok(y) : y \in SmoothOutcomes(m) }

\* GaussianBlur with sigma 3, then
\* cv::addWeighted(frame, 1.0 + amount, blurred, -amount, 0, sharpened)
applySharpen(m, amount) ==
    { [m EXCEPT !.data = [i \in 1..Len(m.data) |->
         Saturate(RoundDiv(m.data[i] * (amount[2] + amount[1])
                             - blurred.data[i] * amount[1], amount[2]))]]
      : blurred \in SmoothOutcomes(m) }

\* the steps with denoising moved to the front
StageOrder_denoiseFirst ==
    << "Denoise", "Normalize", "Gain", "GaussianBlur", "Sharpen", "Contrast",
       "FinalClamp" >>

\* the order of the gated steps of applyFilters
StageOrder ==
    << "Normalize", "Gain", "Denoise", "GaussianBlur", "Sharpen", "Contrast",
       "FinalClamp" >>

\* the condition that gates each step
StageEnabled(stage, p) ==
    CASE stage = "Normalize"    -> p.normalize
      [] stage = "Gain"         -> p.gain[1] # p.gain[2]
      [] stage = "Denoise"      -> p.denoise
      [] stage = "GaussianBlur" -> p.gaussianBlur /\ p.blurKernelSize > 0
      [] stage = "Sharpen"      -> p.sharpen
      [] stage = "Contrast"     -> p.contrastAlpha[1] # p.contrastAlpha[2]
                                     \/ p.contrastBeta # 0
      [] stage = "FinalClamp"   -> TRUE

\* what each step does to the matrix
StageRun(stage, m, p) ==
    CASE stage = "Normalize"    -> { Ok(normalizeIntensity(m)) }
      [] stage = "Gain"         -> { Ok(applyGain(m, p.gain)) }
      [] stage = "Denoise"      -> { Ok(y) : y \in applyDenoise(m) }
      [] stage = "GaussianBlur" -> GaussianBlur(m, p.blurKernelSize)
      [] stage = "Sharpen"      -> { Ok(y) : y \in applySharpen(m, p.sharpenAmount) }
      [] stage = "Contrast"     -> { Ok(ConvertScale(m, p.contrastAlpha,
                                                     p.contrastBeta)) }
      [] stage = "FinalClamp"   -> { Ok(NormalizeMinMax(m)) }

\* the steps from the i-th on, from the matrix x.m with the steps x.st run
RECURSIVE RunStages(_, _, _, _)
RunStages(order, p, i, x) ==
    IF i > Len(order) THEN { [ threw |-> "", frame |-> x.m, stages |-> x.st ] }
    ELSE IF ~StageEnabled(order[i], p) THEN RunStages(order, p, i + 1, x)
    ELSE UNION {
           IF y.ok
           THEN RunStages(order, p, i + 1,
                          [ m |-> y.m, st |-> Append(x.st, order[i]) ])
           ELSE { [ threw |-> y.what, frame |-> NoFrame,
                    stages |-> Append(x.st, order[i]) ] }
           : y \in StageRun(order[i], x.m, p) }

\* cv::Mat UltrasoundSDK::applyFilters(const cv::Mat&, const ProcessingParams&):
\* the set of its outcomes
applyFilters(frame, p) ==
    IF MatEmpty(frame)
    THEN { [ threw |-> ErrEmptyFrame, frame |-> NoFrame, stages |-> <<>> ] }
    ELSE RunStages(StageOrder, p, 1, [ m |-> frame, st |-> <<>> ])

-----------------------------------------------------------------------------
(* The frames and parameters handed to the pipeline *)

MaxFrameRows == 1       \* frames have 1..MaxFrameRows rows
MaxFrameCols == 2       \* and 1..MaxFrameCols columns
MaxKernel == 3          \* blurKernelSize ranges over -1..MaxKernel

FrameKinds == { "uniform", "ramp", "edge" }
FrameSample(kind, i) ==
    CASE kind = "uniform" -> 128
      [] kind = "ramp"    -> (10 + 20 * (i - 1)) % 256
      [] kind = "edge"    -> IF i % 2 = 1 THEN 0 ELSE 255

Frames ==
    { NoFrame } \cup
    { [ rows |-> r, cols |-> c, data |-> [i \in 1..(r * c) |-> FrameSample(k, i)] ]
      : r \in 1..MaxFrameRows, c \in 1..MaxFrameCols, k \in FrameKinds }

ParamValues ==
    [ normalize : BOOLEAN, denoise : BOOLEAN,
      gain : { <<1, 1>>, <<2, 1>>, <<1, 2>> },
      gaussianBlur : BOOLEAN, blurKernelSize : (-1)..MaxKernel,
      sharpen : BOOLEAN, sharpenAmount : { <<1, 1>>, <<1, 2>> },
      contrastAlpha : { <<1, 1>>, <<3, 2>> }, contrastBeta : { 0, 40 },
      enableAiPreprocessing : { FALSE } ]

-----------------------------------------------------------------------------
(* The JNI bridge (ultrasound_jni.cpp): threads, handles and bitmaps        *)

NumThreads == 2         \* Java threads calling the native entry points
MaxSdk == 1             \* heap slots for UltrasoundSDK objects
MaxMats == 1            \* heap slots for cv::Mat objects
NumBitmaps == 1         \* android.graphics.Bitmap objects
MaxPixelLocks == 2      \* calls to nativeMatToBitmap stop once a bitmap
                        \* could be left with this many locks

Threads == 1..NumThreads
NoThread == 0
NullHandle == 0
SdkHandles == 1..MaxSdk
MatAddresses == 1..MaxMats
Bitmaps == 1..NumBitmaps

\* reinterpret_cast between jlong and a pointer keeps the address
getSDK(handle) == handle
getMat(matAddress) == matAddress

\* heap slots: an object is live between new and delete
NoSdk == [ live |-> FALSE ]
NoMat == [ live |-> FALSE, rows |-> 0, cols |-> 0, channels |-> 0 ]

\* AndroidBitmapInfo of each bitmap
BitmapInfo(b) ==
    IF b % 2 = 1
    THEN [ width |-> MaxDim, height |-> MaxDim,
           format |-> "RGBA_8888" ]
    ELSE [ width |-> 1, height |-> 1,
           format |-> "RGB_565" ]

\* the byte arrays handed to nativeProcessFrame and nativeGetFrameMetadata:
\* a frame of MaxDim x MaxDim, a frame of 1 x 1, and a truncated header
JniInputs ==
    { Encode(ScenarioHeader, Payload("ramp", MaxDim * MaxDim)),
      Encode(MkHeader(MAGIC_ID, 1, 1, 1, 1,
                      [ frameNumber |-> <<8, 0>>,
                        timestamp |-> <<2000, 0, 0, 0>>,
                        reserved |-> <<0, 0>>, crc |-> <<0, 0>> ]),
             Payload("flat", 1)),
      SubSeq(Encode(ScenarioHeader, <<>>), 1, 10) }

\* the arguments normalize, denoise and gain of nativeProcessFrame
JniFlags == { <<TRUE, TRUE, <<1, 1>>>>, <<FALSE, FALSE, <<2, 1>>>> }

\* ProcessingParams params; params.normalize = normalize; ...
JniParams(flags) ==
    [ DefaultParams EXCEPT !.normalize = flags[1], !.denoise = flags[2],
                           !.gain = flags[3] ]

IllegalArgumentException == "java/lang/IllegalArgumentException"
RuntimeException == "java/lang/RuntimeException"
ErrInvalidSdk == "Invalid SDK handle"
ErrInvalidMat == "Invalid Mat address or empty Mat"
ErrBitmapInfo == "Failed to get bitmap info"
ErrLockPixels == "Failed to lock bitmap pixels"
ErrBadAlloc == "std::bad_alloc"
ErrCvNoMem == "cv::Exception: Failed to allocate memory"
ErrCvBadMat == "cv::Exception: unsupported matrix"

\* a thread's call: the entry point, its arguments, the successful
\* lockPixels and the unlockPixels it has made, its local matrix rgba, the
\* value it returns and the Java exception it leaves pending
NoCall ==
    [ fn |-> "none", handle |-> NullHandle, bitmap |-> 0, input |-> <<>>,
      flags |-> <<>>, locked |-> 0, unlocked |-> 0,
      rgba |-> [ rows |-> 0, cols |-> 0, channels |-> 0 ],
      ret |-> 0, meta |-> <<>>, exc |-> "", what |-> "" ]

JniInit ==
    /\ pc = [t \in Threads |-> "idle"]
    /\ call = [t \in Threads |-> NoCall]
    /\ g_sdkMutex = NoThread
    /\ sdkHeap = [h \in SdkHandles |-> NoSdk]
    /\ matHeap = [a \in MatAddresses |-> NoMat]
    /\ pixelLocks = [b \in Bitmaps |-> 0]
    /\ aborted = FALSE

-----------------------------------------------------------------------------
(* The state machine *)

Init ==
    /\ sdk = [ defaultParams |-> DefaultParams ]
    /\ sizeBits \in { 32, 64 }
    /\ op = "none"
    /\ data = <<>>
    /\ expectedCrc = <<0, 0>>
    /\ loadRet = NoLoadRet
    /\ crcRet = FALSE
    /\ frameArg = NoFrame
    /\ params = DefaultParams
    /\ filterRet = NoFilterRet
    /\ JniInit

\* UltraFrame UltrasoundSDK::loadFrameFromBytes(const std::vector<uint8_t>&)
LoadFrameFromBytes ==
    /\ op = "none"
    /\ \E d \in Inputs :
         /\ data' = d
         /\ loadRet' \in loadFrameFromBytes(d, sizeBits)
    /\ op' = "loadFrameFromBytes"
    /\ UNCHANGED <<sdk, sizeBits, expectedCrc, crcRet, frameArg, params, filterRet>>
    /\ UNCHANGED jniVars

\* bool UltrasoundSDK::validateCrc(const std::vector<uint8_t>&, uint32_t)
ValidateCrc ==
    /\ op = "none"
    /\ \E d \in CrcInputs :
         \E e \in ExpectedCrcs(d) :
           /\ data' = d
           /\ expectedCrc' = e
           /\ crcRet' = validateCrc(d, e)
    /\ op' = "validateCrc"
    /\ UNCHANGED <<sdk, sizeBits, loadRet, frameArg, params, filterRet>>
    /\ UNCHANGED jniVars

\* the caller drops the arguments and the result; the SDK object lives on
Return ==
    /\ op # "none"
    /\ op' = "none"
    /\ data' = <<>>
    /\ expectedCrc' = <<0, 0>>
    /\ loadRet' = NoLoadRet
    /\ crcRet' = FALSE
    /\ frameArg' = NoFrame
    /\ params' = DefaultParams
    /\ filterRet' = NoFilterRet
    /\ UNCHANGED <<sdk, sizeBits>>
    /\ UNCHANGED jniVars

\* cv::Mat UltrasoundSDK::applyFilters(const cv::Mat&, const ProcessingParams&)
ApplyFilters ==
    /\ op = "none"
    /\ \E f \in Frames :
         \E p \in ParamValues :
           /\ frameArg' = f
           /\ params' = p
           /\ filterRet' \in applyFilters(f, p)
    /\ op' = "applyFilters"
    /\ UNCHANGED <<sdk, sizeBits, data, expectedCrc, loadRet, crcRet>>
    /\ UNCHANGED jniVars

\* the frame decoder
Next == LoadFrameFromBytes \/ ValidateCrc \/ Return

Spec == Init /\ [][Next]_vars

\* the filter pipeline
NextFilter == ApplyFilters \/ Return

SpecFilter == Init /\ [][NextFilter]_vars

-----------------------------------------------------------------------------
(* The JNI bridge: the entry points, step by step.  A Java thread passes    *)
(* the null handle or a handle that is live when it makes the call.         *)

LiveSdk == { h \in SdkHandles : sdkHeap[h].live }
LiveMats == { a \in MatAddresses : matHeap[a].live }
FreeSdk == SdkHandles \ LiveSdk
FreeMats == MatAddresses \ LiveMats

\* env->ThrowNew(exClass, what)
ThrowNew(c, exClass, what) == [c EXCEPT !.exc = exClass, !.what = what]

\* thread t enters the entry point with the call record c, at position p
Enter(t, c, p) ==
    /\ ~aborted
    /\ pc[t] = "idle"
    /\ call' = [call EXCEPT ![t] = c]
    /\ pc' = [pc EXCEPT ![t] = p]
    /\ UNCHANGED <<g_sdkMutex, sdkHeap, matHeap, pixelLocks, aborted>>
    /\ UNCHANGED <<coreVars, sizeBits>>

\* thread t stands at position p of the entry point fn
At(t, fn, p) == ~aborted /\ call[t].fn = fn /\ pc[t] = p

\* thread t leaves the entry point with the call record c
Leave(t, c) ==
    /\ call' = [call EXCEPT ![t] = c]
    /\ pc' = [pc EXCEPT ![t] = "returned"]

\* thread t goes on to position p with the call record c
Goto(t, c, p) ==
    /\ call' = [call EXCEPT ![t] = c]
    /\ pc' = [pc EXCEPT ![t] = p]

\* the calls made by the Java side
CallInit(t) ==
    \E c \in { [NoCall EXCEPT !.fn = "nativeInit"] } : Enter(t, c, "lock")

CallRelease(t) ==
    \E h \in { NullHandle } \cup LiveSdk :
      Enter(t, [NoCall EXCEPT !.fn = "nativeRelease", !.handle = h], "lock")

CallProcessFrame(t) ==
    \E h \in { NullHandle } \cup LiveSdk, d \in JniInputs, f \in JniFlags :
      Enter(t, [NoCall EXCEPT !.fn = "nativeProcessFrame", !.handle = h,
                              !.input = d, !.flags = f], "lock")

CallGetFrameMetadata(t) ==
    \E h \in { NullHandle } \cup LiveSdk, d \in JniInputs :
      Enter(t, [NoCall EXCEPT !.fn = "nativeGetFrameMetadata", !.handle = h,
                              !.input = d], "lock")

\* calls of nativeMatToBitmap that have not yet reached lockPixels
BeforeLock(b) ==
    { u \in Threads : /\ call[u].fn = "nativeMatToBitmap"
                      /\ call[u].bitmap = b
                      /\ pc[u] \in { "getMat", "getInfo", "lockPixels" } }

CallMatToBitmap(t) ==
    \E a \in { NullHandle } \cup LiveMats, b \in { 0 } \cup Bitmaps :
      /\ b # 0 => pixelLocks[b] + Cardinality(BeforeLock(b)) < MaxPixelLocks
      /\ Enter(t, [NoCall EXCEPT !.fn = "nativeMatToBitmap", !.handle = a,
                                 !.bitmap = b], "getMat")

CallReleaseMat(t) ==
    \E a \in { NullHandle } \cup LiveMats :
      Enter(t, [NoCall EXCEPT !.fn = "nativeReleaseMat", !.handle = a], "delete")

\* std::lock_guard<std::mutex> lock(g_sdkMutex): the first statement of
\* nativeInit, nativeRelease, nativeProcessFrame and nativeGetFrameMetadata
LockGuard(t) ==
    /\ ~aborted
    /\ pc[t] = "lock"
    /\ g_sdkMutex = NoThread
    /\ g_sdkMutex' = t
    /\ pc' = [pc EXCEPT ![t] = "body"]
    /\ UNCHANGED <<call, sdkHeap, matHeap, pixelLocks, aborted>>
    /\ UNCHANGED <<coreVars, sizeBits>>

\* nativeInit, lines 47-57, and the unlock at its return
NativeInit(t) ==
    /\ At(t, "nativeInit", "body")
    /\ IF FreeSdk = {}
       THEN /\ Leave(t, ThrowNew(call[t], RuntimeException, ErrBadAlloc))
            /\ UNCHANGED sdkHeap
       ELSE \E h \in FreeSdk :
              /\ sdkHeap' = [sdkHeap EXCEPT ![h] = [ live |-> TRUE ]]
              /\ Leave(t, [call[t] EXCEPT !.ret = h])
    /\ g_sdkMutex' = NoThread
    /\ UNCHANGED <<matHeap, pixelLocks, aborted>>
    /\ UNCHANGED <<coreVars, sizeBits>>

\* the outcomes of delete on a heap slot: a second delete of the same
\* object is undefined; the process dies or goes on
DeleteOutcomes(live) == IF live THEN { "freed" } ELSE { "abort", "goes on" }

\* nativeRelease, lines 66-69, and the unlock at its return
NativeRelease(t) ==
    /\ At(t, "nativeRelease", "body")
    /\ LET sdkp == getSDK(call[t].handle) IN
         IF sdkp = NullHandle
         THEN UNCHANGED <<sdkHeap, aborted>>
         ELSE \E o \in DeleteOutcomes(sdkHeap[sdkp].live) :
                /\ sdkHeap' = [sdkHeap EXCEPT ![sdkp] = NoSdk]
                /\ aborted' = (o = "abort")
    /\ Leave(t, call[t])
    /\ g_sdkMutex' = NoThread
    /\ UNCHANGED <<matHeap, pixelLocks>>
    /\ UNCHANGED <<coreVars, sizeBits>>

\* what the body of nativeProcessFrame computes, lines 88-106, up to the
\* allocation of the result: an exception, a crash of the decoder, or the
\* processed matrix
ProcessOutcomes(d, flags, bits) ==
    UNION {
      IF x.threw # "" THEN { [ abort |-> FALSE, threw |-> x.threw, rows |-> 0, cols |-> 0 ] }
      ELSE IF x.crashed THEN { [ abort |-> TRUE, threw |-> "", rows |-> 0, cols |-> 0 ] }
      ELSE { IF y.threw # ""
             THEN [ abort |-> FALSE, threw |-> y.threw, rows |-> 0, cols |-> 0 ]
             ELSE [ abort |-> FALSE, threw |-> "",
                    rows |-> y.frame.rows, cols |-> y.frame.cols ]
             : y \in applyFilters(x.frame, JniParams(flags)) }
      : x \in loadFrameFromBytes(d, bits) }

\* a call through a pointer to a deleted object is undefined: the process
\* dies, or the call runs (the member functions read no member)
DanglingCall(live) == IF live THEN { "runs" } ELSE { "runs", "abort" }

\* nativeProcessFrame, lines 79-114, and the unlock at its return
NativeProcessFrame(t) ==
    /\ At(t, "nativeProcessFrame", "body")
    /\ LET c == call[t]
           sdkp == getSDK(c.handle)
       IN
         IF sdkp = NullHandle
         THEN /\ Leave(t, ThrowNew(c, IllegalArgumentException, ErrInvalidSdk))
              /\ UNCHANGED <<matHeap, aborted>>
         ELSE \E u \in DanglingCall(sdkHeap[sdkp].live) :
              \E o \in ProcessOutcomes(c.input, c.flags, sizeBits) :
                IF u = "abort" \/ o.abort
                THEN /\ aborted' = TRUE
                     /\ Leave(t, c)
                     /\ UNCHANGED matHeap
                ELSE IF o.threw # ""
                THEN /\ Leave(t, ThrowNew(c, RuntimeException, o.threw))
                     /\ UNCHANGED <<matHeap, aborted>>
                ELSE IF FreeMats = {}
                THEN /\ Leave(t, ThrowNew(c, RuntimeException, ErrBadAlloc))
                     /\ UNCHANGED <<matHeap, aborted>>
                ELSE \E a \in FreeMats :
                       /\ matHeap' = [matHeap EXCEPT ![a] =
                            [ live |-> TRUE, rows |-> o.rows, cols |-> o.cols,
                              channels |-> 1 ]]
                       /\ Leave(t, [c EXCEPT !.ret = a])
                       /\ UNCHANGED aborted
    /\ g_sdkMutex' = NoThread
    /\ UNCHANGED <<sdkHeap, pixelLocks>>
    /\ UNCHANGED <<coreVars, sizeBits>>

\* nativeGetFrameMetadata, lines 123-156, and the unlock at its return; the
\* two jlong values keep the bits of frameNumber and timestamp
NativeGetFrameMetadata(t) ==
    /\ At(t, "nativeGetFrameMetadata", "body")
    /\ LET c == call[t]
           sdkp == getSDK(c.handle)
       IN
         IF sdkp = NullHandle
         THEN /\ Leave(t, ThrowNew(c, IllegalArgumentException, ErrInvalidSdk))
              /\ UNCHANGED aborted
         ELSE \E u \in DanglingCall(sdkHeap[sdkp].live) :
              \E x \in loadFrameFromBytes(c.input, sizeBits) :
                IF u = "abort" \/ x.crashed
                THEN /\ aborted' = TRUE
                     /\ Leave(t, c)
                ELSE IF x.threw # ""
                THEN /\ Leave(t, ThrowNew(c, RuntimeException, x.threw))
                     /\ UNCHANGED aborted
                ELSE /\ Leave(t, [c EXCEPT !.meta = <<x.header.frameNumber,
                                                      x.header.timestamp>>])
                     /\ UNCHANGED aborted
    /\ g_sdkMutex' = NoThread
    /\ UNCHANGED <<sdkHeap, matHeap, pixelLocks>>
    /\ UNCHANGED <<coreVars, sizeBits>>

\* a read of the cv::Mat behind an address: of a live object its header; of
\* a deleted object (undefined) a crash, the header still in the freed
\* memory, or garbage
MatReads(slot) ==
    IF slot.live THEN { [ abort |-> FALSE, garbage |-> FALSE, mat |-> slot ] }
    ELSE { [ abort |-> TRUE, garbage |-> FALSE, mat |-> NoMat ],
           [ abort |-> FALSE, garbage |-> FALSE, mat |-> slot ],
           [ abort |-> FALSE, garbage |-> TRUE, mat |-> NoMat ] }

\* cv::Mat::empty()
Mat_empty(m) == m.rows * m.cols = 0

\* nativeMatToBitmap, lines 163-170: getMat and the test of the matrix
MatToBitmap_getMat(t) ==
    /\ At(t, "nativeMatToBitmap", "getMat")
    /\ LET c == call[t]
           mat == getMat(c.handle)
       IN
         IF mat = NullHandle
         THEN /\ Leave(t, ThrowNew(c, IllegalArgumentException, ErrInvalidMat))
              /\ UNCHANGED aborted
         ELSE \E r \in MatReads(matHeap[mat]) :
                IF r.abort
                THEN /\ aborted' = TRUE
                     /\ Leave(t, c)
                ELSE IF Mat_empty(r.mat)
                THEN /\ Leave(t, ThrowNew(c, IllegalArgumentException, ErrInvalidMat))
                     /\ UNCHANGED aborted
                ELSE /\ Goto(t, c, "getInfo")
                     /\ UNCHANGED aborted
    /\ UNCHANGED <<g_sdkMutex, sdkHeap, matHeap, pixelLocks>>
    /\ UNCHANGED <<coreVars, sizeBits>>

\* nativeMatToBitmap, lines 177-179: AndroidBitmap_getInfo fails on a null
\* bitmap; the runtime_error is caught at line 208
MatToBitmap_getInfo(t) ==
    /\ At(t, "nativeMatToBitmap", "getInfo")
    /\ IF call[t].bitmap = 0
       THEN Leave(t, ThrowNew(call[t], RuntimeException, ErrBitmapInfo))
       ELSE Goto(t, call[t], "lockPixels")
    /\ UNCHANGED <<g_sdkMutex, sdkHeap, matHeap, pixelLocks, aborted>>
    /\ UNCHANGED <<coreVars, sizeBits>>

\* the results of AndroidBitmap_lockPixels: success, or a negative code
\* when the pixels cannot be pinned
LockPixelsResults == { "SUCCESS", "ALLOCATION_FAILED" }

\* nativeMatToBitmap, lines 182-184: AndroidBitmap_lockPixels; its failure
\* is thrown and caught at line 208
MatToBitmap_lockPixels(t) ==
    /\ At(t, "nativeMatToBitmap", "lockPixels")
    /\ \E r \in LockPixelsResults :
         IF r = "SUCCESS"
         THEN /\ pixelLocks' = [pixelLocks EXCEPT ![call[t].bitmap] = @ + 1]
              /\ Goto(t, [call[t] EXCEPT !.locked = @ + 1], "convert")
         ELSE /\ Leave(t, ThrowNew(call[t], RuntimeException, ErrLockPixels))
              /\ UNCHANGED pixelLocks
    /\ UNCHANGED <<g_sdkMutex, sdkHeap, matHeap, aborted>>
    /\ UNCHANGED <<coreVars, sizeBits>>

\* the allocation of a matrix by the library succeeds, or throws
\* cv::Exception when memory is short
AllocResults == { "ok", "no memory" }

\* lines 187-195: the matrix rgba made from *mat by cv::cvtColor or clone
ToRgba(m) ==
    IF m.channels = 1 \/ m.channels = 3
    THEN [ rows |-> m.rows, cols |-> m.cols, channels |-> 4 ]
    ELSE [ rows |-> m.rows, cols |-> m.cols, channels |-> m.channels ]

\* nativeMatToBitmap, lines 187-195: the conversion reads *mat; what it
\* throws is caught at line 208, and the handler returns without
\* AndroidBitmap_unlockPixels
MatToBitmap_convert(t) ==
    /\ At(t, "nativeMatToBitmap", "convert")
    /\ LET c == call[t] IN
         \E r \in MatReads(matHeap[getMat(c.handle)]), m \in AllocResults :
           IF r.abort
           THEN /\ aborted' = TRUE
                /\ Leave(t, c)
           ELSE IF r.garbage
           THEN /\ Leave(t, ThrowNew(c, RuntimeException, ErrCvBadMat))
                /\ UNCHANGED aborted
           ELSE IF m = "no memory"
           THEN /\ Leave(t, ThrowNew(c, RuntimeException, ErrCvNoMem))
                /\ UNCHANGED aborted
           ELSE /\ Goto(t, [c EXCEPT !.rgba = ToRgba(r.mat)], "resize")
                /\ UNCHANGED aborted
    /\ UNCHANGED <<g_sdkMutex, sdkHeap, matHeap, pixelLocks>>
    /\ UNCHANGED <<coreVars, sizeBits>>

\* nativeMatToBitmap, lines 198-200: cv::resize to the size of the bitmap
\* when the sizes differ; what it throws is caught at line 208
MatToBitmap_resize(t) ==
    /\ At(t, "nativeMatToBitmap", "resize")
    /\ LET c == call[t]
           info == BitmapInfo(c.bitmap)
       IN
         IF c.rgba.cols # info.width \/ c.rgba.rows # info.height
         THEN \E m \in AllocResults :
                IF m = "no memory"
                THEN Leave(t, ThrowNew(c, RuntimeException, ErrCvNoMem))
                ELSE Goto(t, [c EXCEPT !.rgba.rows = info.height,
                                       !.rgba.cols = info.width], "copy")
         ELSE Goto(t, c, "copy")
    /\ UNCHANGED <<g_sdkMutex, sdkHeap, matHeap, pixelLocks, aborted>>
    /\ UNCHANGED <<coreVars, sizeBits>>

\* bytes per pixel of a bitmap format
BytesPerPixel(format) == IF format = "RGBA_8888" THEN 4 ELSE 2

\* memcpy(pixels, rgba.data, info.width * info.height * 4): past the end of
\* the pixels or of rgba it is undefined, the process dies or goes on
CopyOutcomes(rgba, info) ==
    IF BytesPerPixel(info.format) = 4 /\ rgba.channels >= 4
    THEN { "copied" }
    ELSE { "copied", "abort" }

\* nativeMatToBitmap, lines 203-206: memcpy and AndroidBitmap_unlockPixels
MatToBitmap_copy(t) ==
    /\ At(t, "nativeMatToBitmap", "copy")
    /\ LET c == call[t] IN
         \E o \in CopyOutcomes(c.rgba, BitmapInfo(c.bitmap)) :
           IF o = "abort"
           THEN /\ aborted' = TRUE
                /\ Leave(t, c)
                /\ UNCHANGED pixelLocks
           ELSE /\ pixelLocks' = [pixelLocks EXCEPT ![c.bitmap] = @ - 1]
                /\ Leave(t, [c EXCEPT !.unlocked = @ + 1])
                /\ UNCHANGED aborted
    /\ UNCHANGED <<g_sdkMutex, sdkHeap, matHeap>>
    /\ UNCHANGED <<coreVars, sizeBits>>

\* nativeReleaseMat, lines 220-223; the freed memory keeps the header
NativeReleaseMat(t) ==
    /\ At(t, "nativeReleaseMat", "delete")
    /\ LET mat == getMat(call[t].handle) IN
         IF mat = NullHandle
         THEN UNCHANGED <<matHeap, aborted>>
         ELSE \E o \in DeleteOutcomes(matHeap[mat].live) :
                /\ matHeap' = [matHeap EXCEPT ![mat].live = FALSE]
                /\ aborted' = (o = "abort")
    /\ Leave(t, call[t])
    /\ UNCHANGED <<g_sdkMutex, sdkHeap, pixelLocks>>
    /\ UNCHANGED <<coreVars, sizeBits>>

\* the Java side takes the result and the pending exception
JniReturn(t) ==
    /\ ~aborted
    /\ pc[t] = "returned"
    /\ pc' = [pc EXCEPT ![t] = "idle"]
    /\ call' = [call EXCEPT ![t] = NoCall]
    /\ UNCHANGED <<g_sdkMutex, sdkHeap, matHeap, pixelLocks, aborted>>
    /\ UNCHANGED <<coreVars, sizeBits>>

\* the JNI bridge under concurrent Java threads
NextJni ==
    \E t \in Threads :
      \/ CallInit(t)
      \/ CallRelease(t)
      \/ CallProcessFrame(t)
      \/ CallGetFrameMetadata(t)
      \/ CallMatToBitmap(t)
      \/ CallReleaseMat(t)
      \/ LockGuard(t)
      \/ NativeInit(t)
      \/ NativeRelease(t)
      \/ NativeProcessFrame(t)
      \/ NativeGetFrameMetadata(t)
      \/ MatToBitmap_getMat(t)
      \/ MatToBitmap_getInfo(t)
      \/ MatToBitmap_lockPixels(t)
      \/ MatToBitmap_convert(t)
      \/ MatToBitmap_resize(t)
      \/ MatToBitmap_copy(t)
      \/ NativeReleaseMat(t)
      \/ JniReturn(t)

SpecJni == Init /\ [][NextJni]_vars

-----------------------------------------------------------------------------
(* Vocabulary of the properties, read off the bytes of the buffer *)

FormatError == "Data too small to contain header"
InvalidHeaderError == "Invalid header: magic ID mismatch"
SizeMismatchError == "Data size mismatch"

MagicBytes == <<82, 84, 76, 85>>        \* 0x554C5452, least significant first
Field16(d, off) == d[off + 1] + 256 * d[off + 2]

HeaderBytesValid(d) ==
    /\ SubSeq(d, 1, 4) = MagicBytes
    /\ Field16(d, 4) > 0 /\ Field16(d, 6) > 0 /\ Field16(d, 10) > 0

\* a * b, or Cap when the product exceeds Cap: Cap is above every buffer length
Cap == 1000 * 1000
SatMul(a, b) ==
    IF a = 0 \/ b = 0 THEN 0
    ELSE IF a > Cap \div b THEN Cap
    ELSE a * b

\* min(width*height*depth*bytesPerSample, Cap), the product taken exactly
ExactDataSize(w, h, dp, b) == SatMul(SatMul(SatMul(w, h), dp), b)
ExactDataSizeOf(d) ==
    ExactDataSize(Field16(d, 4), Field16(d, 6), Field16(d, 8), Field16(d, 10))

Loaded == op = "loadFrameFromBytes"
Succeeded == Loaded /\ loadRet.threw = "" /\ ~loadRet.crashed

AllHeaders == GridHeaders \cup LargeHeaders
EncodedHeader == [h \in AllHeaders |-> Encode(h, <<>>)]
ValidHeaders ==
    { h \in AllHeaders : /\ h.magicId = <<21586, 21836>>
                         /\ h.width > 0 /\ h.height > 0 /\ h.bytesPerVoxel > 0 }

-----------------------------------------------------------------------------
(* C1: round-trip law.  Decoding the encoding of a valid header h followed  *)
(* by a payload of exactly width*height*depth*bytesPerSample bytes          *)
(* succeeds, returns the nine fields of h and a matrix whose bytes are the  *)
(* payload.                                                                 *)
RoundTripLaw ==
    (Loaded /\ Len(data) >= 32) =>
      \A h \in ValidHeaders :
        ( /\ SubSeq(data, 1, 32) = EncodedHeader[h]
          /\ Len(data) - 32 = ExactDataSize(h.width, h.height, h.depth,
                                            h.bytesPerVoxel) )
        => /\ loadRet.threw = ""
           /\ ~loadRet.crashed
           /\ loadRet.header = h
           /\ loadRet.frame.data = SubSeq(data, 33, Len(data))

\* the law restricted to depth = 1 and bytesPerSample = 1, the only layout
\* the format uses in practice
RoundTripLawPlain ==
    (Loaded /\ Len(data) >= 32) =>
      \A h \in ValidHeaders :
        ( /\ h.depth = 1 /\ h.bytesPerVoxel = 1
          /\ SubSeq(data, 1, 32) = EncodedHeader[h]
          /\ Len(data) - 32 = h.width * h.height )
        => /\ loadRet.threw = ""
           /\ ~loadRet.crashed
           /\ loadRet.header = h
           /\ loadRet.frame.data = SubSeq(data, 33, Len(data))

-----------------------------------------------------------------------------
(* C2: a buffer shorter than 32 bytes makes decode fail with FormatError,   *)
(* and no header and no frame are returned.                                 *)
ShortInputFormatError ==
    (Loaded /\ Len(data) < 32) =>
      /\ loadRet.threw = FormatError
      /\ loadRet.header = NoHeader
      /\ loadRet.frame = NoFrame

ShortInputWitness ==
    Loaded /\ Len(data) = 10 /\ loadRet.threw = FormatError

-----------------------------------------------------------------------------
(* C3: a buffer of at least 32 bytes whose magic differs from 0x554C5452    *)
(* or whose width, height or bytesPerSample is zero makes decode fail with  *)
(* InvalidHeaderError, whatever the length of the rest of the buffer.       *)
InvalidHeaderRejected ==
    (Loaded /\ Len(data) >= 32 /\ ~HeaderBytesValid(data)) =>
      loadRet.threw = InvalidHeaderError

\* a zero bytesPerSample under the right magic, in a buffer that is long
\* enough for the (empty) payload and longer
InvalidHeaderWitness ==
    /\ Loaded /\ Len(data) > 32
    /\ SubSeq(data, 1, 4) = MagicBytes
    /\ Field16(data, 4) > 0 /\ Field16(data, 6) > 0 /\ Field16(data, 10) = 0
    /\ loadRet.threw = InvalidHeaderError

-----------------------------------------------------------------------------
(* C4: with a valid header in a buffer of at least 32 bytes, decode fails   *)
(* with SizeMismatchError exactly when the buffer is shorter than           *)
(* 32 + width*height*depth*bytesPerSample, the product taken exactly.       *)
SizeMismatchExact ==
    (Loaded /\ Len(data) >= 32 /\ HeaderBytesValid(data)) =>
      ( loadRet.threw = SizeMismatchError
          <=> Len(data) < 32 + ExactDataSizeOf(data) )

\* the same where size_t has 64 bits, which hold every product of four
\* 16-bit fields plus 32
SizeMismatchExactLP64 ==
    (sizeBits = 64) => SizeMismatchExact

-----------------------------------------------------------------------------
(* C5: the checksum comparison never decides the outcome of decode.  Every  *)
(* failure has a cause other than the checksum, and replacing the four      *)
(* checksum bytes at offsets 28..31 leaves the outcome the same, up to the  *)
(* checksum field of the returned header.                                   *)
CrcPatches == { <<0, 0, 0, 0>>, <<239, 190, 173, 222>>, <<255, 255, 255, 255>> }
PatchCrc(d, c) == SubSeq(d, 1, 28) \o c \o SubSeq(d, 33, Len(d))
SansCrc(r) ==
    IF r.header = NoHeader THEN r
    ELSE [r EXCEPT !.header = [r.header EXCEPT !.crc = <<0, 0>>]]

ChecksumNonFatal ==
    Loaded =>
      /\ loadRet.threw \in { "", FormatError, InvalidHeaderError, SizeMismatchError }
      /\ loadRet.threw = FormatError => Len(data) < 32
      /\ loadRet.threw = InvalidHeaderError => ~HeaderBytesValid(data)
      /\ loadRet.threw = SizeMismatchError => Len(data) < 32 + ExactDataSizeOf(data)
      /\ Len(data) >= 32 =>
           \A c \in CrcPatches :
             SansCrc(loadRet) \in
               { SansCrc(r) : r \in loadFrameFromBytes(PatchCrc(data, c), sizeBits) }

\* a frame decoded although its checksum field does not match
ChecksumMismatchDecoded ==
    /\ Succeeded
    /\ loadRet.frame.data # <<>>
    /\ ~validateCrc(data, loadRet.header.crc)

-----------------------------------------------------------------------------
(* C6: validateCrc returns TRUE exactly when the buffer has at least 32     *)
(* bytes and the CRC-32 of its bytes from offset 28 to the end equals the   *)
(* expected value, FALSE otherwise, and leaves the SDK object as it was.    *)
\* CRC-32 of the ASCII digits "123456789", the check value of the algorithm
Crc32CheckValue == calculateCrc32(<<49, 50, 51, 52, 53, 54, 55, 56, 57>>, 0, 9)

ValidateCrcShort ==
    /\ op = "validateCrc" /\ Len(data) = 31 /\ crcRet = FALSE
    /\ calculateCrc32(SubSeq(data, 29, 31), 0, 3) = expectedCrc

-----------------------------------------------------------------------------
(* C9: after a successful decode the matrix is height x width of the        *)
(* header, its size in bytes is frameDataSize, and the number of bytes      *)
(* copied into it is the number of bytes allocated for it.                  *)
FrameBufferSize ==
    (Loaded /\ loadRet.threw = "") =>
      /\ ~loadRet.crashed
      /\ loadRet.frame.rows = loadRet.header.height
      /\ loadRet.frame.cols = loadRet.header.width
      /\ Len(loadRet.frame.data) = loadRet.copied
      /\ loadRet.copied = loadRet.allocated

\* the same for depth = 1 and bytesPerSample = 1
FrameBufferSizePlain ==
    (Loaded /\ loadRet.threw = "" /\ Len(data) >= 32
       /\ Field16(data, 8) = 1 /\ Field16(data, 10) = 1) =>
      /\ ~loadRet.crashed
      /\ loadRet.frame.rows = loadRet.header.height
      /\ loadRet.frame.cols = loadRet.header.width
      /\ Len(loadRet.frame.data) = loadRet.copied
      /\ loadRet.copied = loadRet.allocated

-----------------------------------------------------------------------------
(* Vocabulary of the pipeline properties *)

Filtered == op = "applyFilters" /\ ~MatEmpty(frameArg)

Rank(stage) ==
    CASE stage = "Normalize"    -> 1
      [] stage = "Gain"         -> 2
      [] stage = "Denoise"      -> 3
      [] stage = "GaussianBlur" -> 4
      [] stage = "Sharpen"      -> 5
      [] stage = "Contrast"     -> 6
      [] stage = "FinalClamp"   -> 7

Ran(stage) == \E i \in 1..Len(filterRet.stages) : filterRet.stages[i] = stage

KernelValid == params.blurKernelSize > 0 /\ params.blurKernelSize % 2 = 1

-----------------------------------------------------------------------------
(* C7: the stages that execute do so in the order Normalize, Gain, Denoise, *)
(* Gaussian blur, Sharpen, Contrast, Final clamp, each at most once, and a  *)
(* stage whose option switches it off does not execute.                     *)
StagesInFixedOrder ==
    Filtered =>
      /\ \A i, j \in 1..Len(filterRet.stages) :
           i < j => Rank(filterRet.stages[i]) < Rank(filterRet.stages[j])
      /\ ~params.normalize => ~Ran("Normalize")
      /\ params.gain[1] = params.gain[2] => ~Ran("Gain")
      /\ ~params.denoise => ~Ran("Denoise")
      /\ (~params.gaussianBlur \/ params.blurKernelSize <= 0) => ~Ran("GaussianBlur")
      /\ ~params.sharpen => ~Ran("Sharpen")
      /\ (params.contrastAlpha[1] = params.contrastAlpha[2] /\ params.contrastBeta = 0)
           => ~Ran("Contrast")

AllStagesRan ==
    /\ Filtered
    /\ filterRet.stages = << "Normalize", "Gain", "Denoise", "GaussianBlur",
                             "Sharpen", "Contrast", "FinalClamp" >>

-----------------------------------------------------------------------------
(* C8: every call of apply on a non-empty frame executes the final clamp    *)
(* and returns a matrix of the dimensions of its input with samples in      *)
(* 0..255.                                                                  *)
FinalClampAlways ==
    Filtered =>
      /\ filterRet.threw = ""
      /\ Ran("FinalClamp")
      /\ filterRet.frame.rows = frameArg.rows
      /\ filterRet.frame.cols = frameArg.cols
      /\ Len(filterRet.frame.data) = frameArg.rows * frameArg.cols
      /\ \A i \in 1..Len(filterRet.frame.data) : filterRet.frame.data[i] \in 0..255

\* the same for the calls that return
FinalClampOnReturn ==
    (Filtered /\ filterRet.threw = "") =>
      /\ filterRet.stages # <<>>
      /\ filterRet.stages[Len(filterRet.stages)] = "FinalClamp"
      /\ filterRet.frame.rows = frameArg.rows
      /\ filterRet.frame.cols = frameArg.cols
      /\ Len(filterRet.frame.data) = frameArg.rows * frameArg.cols
      /\ \A i \in 1..Len(filterRet.frame.data) : filterRet.frame.data[i] \in 0..255

-----------------------------------------------------------------------------
(* C10: the Gaussian blur executes only when gaussianBlur is set and        *)
(* blurKernelSize is odd and positive; when gaussianBlur is set and         *)
(* blurKernelSize is even or not positive the blur is not executed and      *)
(* apply goes on with the remaining stages.                                 *)
BlurOnlyWithValidKernel ==
    Filtered =>
      /\ Ran("GaussianBlur") => (params.gaussianBlur /\ KernelValid)
      /\ (params.gaussianBlur /\ ~KernelValid) =>
           /\ ~Ran("GaussianBlur")
           /\ filterRet.threw = ""
           /\ Ran("FinalClamp")

\* what holds of a kernel size that is not positive
BlurSkippedWhenNotPositive ==
    (Filtered /\ params.gaussianBlur /\ params.blurKernelSize <= 0) =>
      /\ ~Ran("GaussianBlur")
      /\ filterRet.threw = ""
      /\ Ran("FinalClamp")

-----------------------------------------------------------------------------
(* Vocabulary of the properties of the JNI bridge *)

SdkUsers == { "nativeProcessFrame", "nativeGetFrameMetadata", "nativeRelease" }
MatUsers == { "nativeMatToBitmap", "nativeReleaseMat" }

\* the positions inside the body of an entry point that takes g_sdkMutex
\* (after the lock_guard) and of one that takes no lock
SdkBody == { "body" }
MatBody == { "getMat", "getInfo", "lockPixels", "convert", "resize", "copy",
             "delete" }

\* thread t is inside the body of an operation that uses the SDK handle h
UsesSdk(t, h) ==
    call[t].fn \in SdkUsers /\ call[t].handle = h /\ pc[t] \in SdkBody

\* thread t is inside the body of an operation that uses the Mat handle a
UsesMat(t, a) ==
    call[t].fn \in MatUsers /\ call[t].handle = a /\ pc[t] \in MatBody

SdkHandlesSerialized ==
    \A t, u \in Threads : \A h \in SdkHandles :
      (t # u /\ UsesSdk(t, h)) => ~UsesSdk(u, h)

MatHandlesSerialized ==
    \A t, u \in Threads : \A a \in MatAddresses :
      (t # u /\ UsesMat(t, a)) => ~UsesMat(u, a)

-----------------------------------------------------------------------------
(* C11: the bridge serializes the calls against every handle it keeps.  In  *)
(* every interleaving no two operations that use the same SDK handle        *)
(* (nativeProcessFrame, nativeGetFrameMetadata, nativeRelease) and no two   *)
(* operations that use the same Mat handle (nativeMatToBitmap,              *)
(* nativeReleaseMat) are inside their bodies at the same time, so no call   *)
(* reads a handle while another call deletes it.                            *)
HandlesSerialized == SdkHandlesSerialized /\ MatHandlesSerialized

\* what holds of the entry points that take g_sdkMutex: at most one thread
\* is past the lock_guard, and it is the holder of the mutex
SdkCallsSerialized ==
    /\ SdkHandlesSerialized
    /\ \A t \in Threads : pc[t] = "body" <=> g_sdkMutex = t

\* two threads inside operations on the same live SDK handle, one of them
\* past the lock_guard and the other waiting for it
SdkCallWaits ==
    \E t, u \in Threads : \E h \in SdkHandles :
      /\ UsesSdk(t, h)
      /\ call[u].fn \in SdkUsers /\ call[u].handle = h /\ pc[u] = "lock"

\* what fails in particular: nativeReleaseMat inside its body on a matrix
\* while nativeMatToBitmap is inside its body before its last read of it
MatNotDeletedWhileRead ==
    \A t, u \in Threads :
      ~ /\ call[t].fn = "nativeMatToBitmap"
        /\ pc[t] \in { "getMat", "getInfo", "lockPixels", "convert" }
        /\ call[u].fn = "nativeReleaseMat" /\ pc[u] = "delete"
        /\ call[t].handle = call[u].handle /\ call[t].handle # NullHandle

\* nativeMatToBitmap about to read the matrix that a concurrent
\* nativeReleaseMat has deleted
MatReadAfterConcurrentDelete ==
    \E t \in Threads :
      /\ call[t].fn = "nativeMatToBitmap"
      /\ pc[t] \in { "getMat", "convert" }
      /\ call[t].handle # NullHandle
      /\ ~matHeap[call[t].handle].live

-----------------------------------------------------------------------------
(* C12: in nativeMatToBitmap every successful AndroidBitmap_lockPixels is   *)
(* followed by exactly one AndroidBitmap_unlockPixels before the call       *)
(* returns, on every path, the paths on which a later step throws and the   *)
(* exception becomes a Java RuntimeException included; no bitmap is left    *)
(* locked when the call returns.                                            *)
Returned(t) == ~aborted /\ call[t].fn = "nativeMatToBitmap" /\ pc[t] = "returned"

\* the calls that hold a lock of bitmap b at this moment
HoldingPixels(b) ==
    { t \in Threads : /\ call[t].fn = "nativeMatToBitmap"
                      /\ call[t].bitmap = b
                      /\ pc[t] \in { "convert", "resize", "copy" } }

LockPixelsPaired ==
    /\ \A t \in Threads : Returned(t) => call[t].unlocked = call[t].locked
    /\ \A b \in Bitmaps :
         ~aborted => pixelLocks[b] = Cardinality(HoldingPixels(b))

\* what holds: a call that returns with no exception pending has locked
\* once and unlocked once, and no call unlocks more than it locked
LockPixelsPairedOnSuccess ==
    \A t \in Threads :
      /\ call[t].unlocked <= call[t].locked
      /\ (Returned(t) /\ call[t].exc = "") =>
           (call[t].locked = 1 /\ call[t].unlocked = 1)

\* a call that returned with a RuntimeException pending and its lock taken
\* and not given back
ReturnedLocked ==
    \E t \in Threads :
      /\ Returned(t)
      /\ call[t].exc = RuntimeException
      /\ call[t].locked = 1 /\ call[t].unlocked = 0
=============================================================================
